---- MODULE Spec2Model ----
(***************************************************************************)
(* A model of mod_parser.py, the ARK SA mod data extractor: the argument   *)
(* distribution of ModParser, the identifier derivation uuid_from_path,    *)
(* the driver ModParser.run and the three builders (BeaconBuilder,         *)
(* StandardBuilder, CSVBuilder) with the files they write.                 *)
(*                                                                         *)
(* Python strings that the code inspects character by character (paths,    *)
(* prefixes, content pack ids, file names) are sequences of one-character  *)
(* strings, so that startswith, lower, slicing and concatenation are       *)
(* computed as Python computes them.  Strings the code only copies are     *)
(* TLA+ strings.                                                           *)
(***************************************************************************)
EXTENDS Integers, Sequences, FiniteSets, TLC

VARIABLES
    parser,             \* self.parser: the chosen subcommand
    mod_data,           \* self.mod_data
    content_pack_ids,   \* self.content_pack_ids, a dict in insertion order
    mda_name,           \* self.mda_name
    assets,             \* what EditorAssetLibrary.list_assets returns for the mod root
    mda_asset,          \* the mod data asset as EditorAssetLibrary.load_asset sees it
    pc,                 \* the position of ModParser.run
    mda_asset_path,     \* run's local mda_asset_path
    engram_entries,     \* run's local engram_entries
    idx,                \* the index of the next entry of run's for loop
    engrams,            \* builder.engrams
    output_file_path,   \* builder.output_file_path
    error,              \* the exception that ended run, if any
    tmp_exists,         \* whether dump's temporary directory is on disk
    tmp_dir,            \* the files of dump's temporary directory
    out_dir,            \* the files of the output directory
    tar,                \* the members tar.add has visited so far
    now,                \* time.time(), a logical clock
    q_path,             \* the argument of the last direct uuid_from_path call
    q_result            \* the result of the last direct uuid_from_path call

vars == <<parser, mod_data, content_pack_ids, mda_name, assets, mda_asset, pc,
          mda_asset_path, engram_entries, idx, engrams, output_file_path, error,
          tmp_exists, tmp_dir, out_dir, tar, now, q_path, q_result>>

config_vars == <<parser, mod_data, content_pack_ids, mda_name, assets, mda_asset>>
query_vars == <<q_path, q_result>>

----------------------------------------------------------------------------
(* Bounds of the model *)

\* the longest list of engram classes a mod data asset holds
MaxEntries == 2
\* the longest path tail a direct uuid_from_path call is tried with
MaxTailLen == 2

----------------------------------------------------------------------------
(* Python strings and values *)

BEACON_NAMESPACE == <<"8", "2", "a", "a", "4", "4", "6", "5", "-", "8", "5", "f", "9", "-", "4", "b", "9", "e", "-", "8", "d", "3", "6", "-", "f", "6", "6", "1", "6", "4", "c", "e", "f", "0", "a", "6">>
BASE_CONTENT_PACK_ID == <<"b", "3", "2", "a", "3", "d", "7", "3", "-", "9", "4", "0", "6", "-", "5", "6", "f", "2", "-", "b", "d", "8", "f", "-", "9", "3", "6", "e", "e", "0", "2", "7", "5", "2", "4", "9">>
GamePrefix == <<"/", "G", "a", "m", "e", "/">>
PacksPrefix == <<"/", "P", "a", "c", "k", "s", "/">>
DefaultMdaName == <<"M", "o", "d", "D", "a", "t", "a", "A", "s", "s", "e", "t">>
JsonExt == <<".", "j", "s", "o", "n">>
ManifestFileName == <<"M", "a", "n", "i", "f", "e", "s", "t", ".", "j", "s", "o", "n">>
BeacondataExt == <<".", "b", "e", "a", "c", "o", "n", "d", "a", "t", "a">>
DataJsonSuffix == <<"-", "d", "a", "t", "a", ".", "j", "s", "o", "n">>
CsvExt == <<".", "c", "s", "v">>

\* Python's None
None == [type |-> "NoneType"]

UpperChars == <<"A", "B", "C", "D", "E", "F", "G", "H", "I", "J", "K", "L", "M",
                "N", "O", "P", "Q", "R", "S", "T", "U", "V", "W", "X", "Y", "Z">>
LowerChars == <<"a", "b", "c", "d", "e", "f", "g", "h", "i", "j", "k", "l", "m",
                "n", "o", "p", "q", "r", "s", "t", "u", "v", "w", "x", "y", "z">>

\* str.lower() of one character
lower_char(c) ==
    IF \E i \in 1..Len(UpperChars) : UpperChars[i] = c
    THEN LowerChars[CHOOSE i \in 1..Len(UpperChars) : UpperChars[i] = c]
    ELSE c

\* str.lower()
lower(s) == [i \in 1..Len(s) |-> lower_char(s[i])]

\* str.startswith(prefix): a case-sensitive comparison
startswith(s, prefix) ==
    /\ Len(prefix) <= Len(s)
    /\ \A i \in 1..Len(prefix) : s[i] = prefix[i]

\* s[:-2]
strip_class_suffix(s) == IF Len(s) <= 2 THEN <<>> ELSE SubSeq(s, 1, Len(s) - 2)

\* needle in haystack
contains(haystack, needle) ==
    \E k \in 0..(Len(haystack) - Len(needle)) :
        \A i \in 1..Len(needle) : haystack[k + i] = needle[i]

\* str(uuid.uuid5(namespace, name)): the identifier is a function of the
\* namespace and the name alone; SHA-1 is taken to be free of collisions,
\* so the identifier is represented by the pair it was derived from.
uuid5(namespace, name) == [type |-> "UUID", namespace |-> namespace, name |-> name]

\* d[key] = value on a dict in insertion order: an existing key keeps its
\* place and takes the new value, a new key goes last
dict_set(d, key, value) ==
    IF \E i \in 1..Len(d) : d[i].prefix = key
    THEN [i \in 1..Len(d) |-> IF d[i].prefix = key
                               THEN [prefix |-> key, id |-> value] ELSE d[i]]
    ELSE Append(d, [prefix |-> key, id |-> value])

----------------------------------------------------------------------------
(* ModParser.uuid_from_path *)

\* the for loop of uuid_from_path from the i-th item of the dict on
RECURSIVE uuid_walk(_, _, _)
uuid_walk(ids, i, path) ==
    IF i > Len(ids) THEN None
    ELSE IF startswith(path, ids[i].prefix)
         THEN uuid5(BEACON_NAMESPACE, lower(ids[i].id) \o <<":">> \o lower(path))
         ELSE uuid_walk(ids, i + 1, path)

\* a loop that forgets to return at the first match: the last match wins
RECURSIVE uuid_walk_last(_, _, _, _)
uuid_walk_last(ids, i, path, found) ==
    IF i > Len(ids) THEN found
    ELSE uuid_walk_last(ids, i + 1, path,
            IF startswith(path, ids[i].prefix)
            THEN uuid5(BEACON_NAMESPACE, lower(ids[i].id) \o <<":">> \o lower(path))
            ELSE found)

uuid_from_path_last_match(ids, path) == uuid_walk_last(ids, 1, path, None)

uuid_from_path(ids, path) == uuid_walk(ids, 1, path)

----------------------------------------------------------------------------
(* The command line: what argparse hands to ModParser.parse_arguments *)

Subcommands == {"beacon", "standard", "csv"}

\* --mod-root-folder: a folder of its own, a folder below /Game/, /Game/ itself
ModRoots == { <<"/", "M", "o", "d", "/">>,
              <<"/", "G", "a", "m", "e", "/", "M", "o", "d", "/">>,
              GamePrefix }

\* --content-pack-id (beacon only)
ContentPackIds == { <<"C", "0", "d", "e">>,
                    <<"M", "a", "n", "i", "f", "e", "s", "t">> }

\* --mod-name
ModName == <<"M", "o", "d">>

\* --mod-id (beacon only)
ModId == "928597"

\* self.content_pack_ids as ModParser.__init__ sets it
InitialContentPackIds ==
    << [prefix |-> GamePrefix, id |-> BASE_CONTENT_PACK_ID],
       [prefix |-> PacksPrefix, id |-> BASE_CONTENT_PACK_ID] >>

\* ModParser.__init__ and parse_arguments: the arguments distributed
parse_arguments(subcommand, mod_root_folder, content_pack_id) ==
    /\ parser = subcommand
    /\ mod_data = IF subcommand = "beacon"
                  THEN [content_pack_id |-> content_pack_id, mod_id |-> ModId,
                        mod_root_folder |-> mod_root_folder, mod_name |-> ModName]
                  ELSE [mod_root_folder |-> mod_root_folder, mod_name |-> ModName]
    /\ content_pack_ids = IF subcommand = "beacon"
                          THEN dict_set(InitialContentPackIds, mod_root_folder, content_pack_id)
                          ELSE InitialContentPackIds
    /\ mda_name = DefaultMdaName

----------------------------------------------------------------------------
(* The asset layer: what the unreal module hands to the pipeline *)

\* a crafting requirement; base_resource_requirement is a float, kept in tenths
Requirement(resource, tenths, exact) ==
    [resource_item_type |-> resource, base_resource_requirement |-> tenths,
     crafting_require_exact_resource_type |-> exact]

\* the item classes of the asset tree and their default objects; "Gone" is a
\* reference unreal.load_object cannot resolve
ItemDefaults ==
    [ A |-> [resolves |-> TRUE,
             path_name |-> <<"/", "M", "o", "d", "/", "A", "_", "C">>,
             descriptive_name_base |-> "Alpha", can_be_blueprint |-> TRUE,
             max_item_quantity |-> 1,
             base_crafting_resource_requirements |->
                 << Requirement("Wood", 39, FALSE), Requirement("Stone", 20, TRUE) >>],
      B |-> [resolves |-> TRUE,
             path_name |-> <<"/", "G", "a", "m", "e", "/", "M", "o", "d", "/", "B", "_", "C">>,
             descriptive_name_base |-> "Beta", can_be_blueprint |-> FALSE,
             max_item_quantity |-> 100,
             base_crafting_resource_requirements |-> << Requirement("Stone", 15, TRUE) >>],
      Wood |-> [resolves |-> TRUE,
             path_name |-> <<"/", "G", "a", "m", "e", "/", "W", "_", "C">>,
             descriptive_name_base |-> "Wood", can_be_blueprint |-> FALSE,
             max_item_quantity |-> 100,
             base_crafting_resource_requirements |-> << >>],
      Stone |-> [resolves |-> TRUE,
             path_name |-> <<"/", "O", "t", "h", "e", "r", "/", "S", "_", "C">>,
             descriptive_name_base |-> "Stone", can_be_blueprint |-> FALSE,
             max_item_quantity |-> 100,
             base_crafting_resource_requirements |-> << >>],
      Gone |-> [resolves |-> FALSE, path_name |-> << >>,
             descriptive_name_base |-> "", can_be_blueprint |-> FALSE,
             max_item_quantity |-> 0,
             base_crafting_resource_requirements |-> << >>] ]

\* the engram classes of the asset tree and their default objects
EngramDefaults ==
    [ EA |-> [class_name |-> "EngramEntry_A_C", required_character_level |-> 10,
              required_engram_points |-> 5, blue_print_entry |-> "A"],
      EB |-> [class_name |-> "EngramEntry_B_C", required_character_level |-> 20,
              required_engram_points |-> 8, blue_print_entry |-> "B"],
      EW |-> [class_name |-> "EngramEntry_W_C", required_character_level |-> 1,
              required_engram_points |-> 0, blue_print_entry |-> "Wood"],
      EG |-> [class_name |-> "EngramEntry_G_C", required_character_level |-> 30,
              required_engram_points |-> 12, blue_print_entry |-> "Gone"] ]

EngramClasses == DOMAIN EngramDefaults

\* the lists additional_engram_blueprint_classes may hold
EntryLists == UNION { [1..n -> EngramClasses] : n \in 0..MaxEntries }

\* what list_assets may return: each asset with its Paths.get_base_filename
AssetTrees ==
    { << [path |-> "/Mod/Items/A", base_filename |-> <<"A">>] >>,
      << [path |-> "/Mod/Items/A", base_filename |-> <<"A">>],
         [path |-> "/Mod/ModDataAsset_BP",
          base_filename |-> DefaultMdaName \o <<"_", "B", "P">>] >>,
      << [path |-> "/Mod/moddataasset", base_filename |-> lower(DefaultMdaName)] >> }

\* the mod data asset: whether load_asset yields an object, whether that
\* object has the additional_engram_blueprint_classes property, and its value
MdaAssets ==
    { [loads |-> FALSE, has_classes |-> FALSE, classes |-> << >>],
      [loads |-> TRUE, has_classes |-> FALSE, classes |-> << >>] }
    \cup { [loads |-> TRUE, has_classes |-> TRUE, classes |-> c] : c \in EntryLists }

----------------------------------------------------------------------------
(* EngramEntry and PrimalItem *)

\* EngramEntry.parse_engram
EngramEntry(engram) ==
    [engram_class_name |-> EngramDefaults[engram].class_name,
     required_level |-> EngramDefaults[engram].required_character_level,
     required_engram_points |-> EngramDefaults[engram].required_engram_points]

\* PrimalItem.parse_primal_item
PrimalItem(item) ==
    [primal_item_path |-> strip_class_suffix(ItemDefaults[item].path_name),
     primal_item_name |-> ItemDefaults[item].descriptive_name_base,
     blueprintable |-> ItemDefaults[item].can_be_blueprint,
     stack_size |-> ItemDefaults[item].max_item_quantity,
     crafting_requirements |-> ItemDefaults[item].base_crafting_resource_requirements]

\* int() of a float kept in tenths: truncation toward zero
int_of_tenths(t) == IF t >= 0 THEN t \div 10 ELSE -((-t) \div 10)

----------------------------------------------------------------------------
(* The builders' add_engram *)

\* the recipe loop of BeaconBuilder.add_engram
beacon_recipe(ids, crafting_requirements) ==
    [i \in 1..Len(crafting_requirements) |->
        [engramId |-> uuid_from_path(ids,
                          strip_class_suffix(
                              ItemDefaults[crafting_requirements[i].resource_item_type].path_name)),
         quantity |-> int_of_tenths(crafting_requirements[i].base_resource_requirement),
         exact |-> crafting_requirements[i].crafting_require_exact_resource_type]]

\* the record BeaconBuilder.add_engram builds
beacon_engram(engram, primal_item, tags) ==
    [group |-> "engrams",
     engramId |-> uuid_from_path(content_pack_ids, primal_item.primal_item_path),
     label |-> primal_item.primal_item_name,
     alternateLabel |-> None,
     tags |-> tags,
     availability |-> 3,
     path |-> primal_item.primal_item_path,
     minVersion |-> 20000000,
     lastUpdate |-> now,
     contentPackId |-> mod_data.content_pack_id,
     contentPackName |-> mod_data.mod_name,
     entryString |-> engram.engram_class_name,
     requiredLevel |-> engram.required_level,
     requiredPoints |-> engram.required_engram_points,
     stackSize |-> primal_item.stack_size,
     recipe |-> beacon_recipe(content_pack_ids, primal_item.crafting_requirements)]

\* an add_engram that tags every item
BeaconBuilder_add_engram_always_tagged(self_engrams, engram, primal_item) ==
    Append(self_engrams, beacon_engram(engram, primal_item, <<"blueprintable">>))

\* BeaconBuilder.add_engram: the value of self.engrams after the call
BeaconBuilder_add_engram(self_engrams, engram, primal_item) ==
    Append(self_engrams,
           beacon_engram(engram, primal_item,
                         IF primal_item.blueprintable THEN <<"blueprintable">> ELSE << >>))

\* the recipe loop of StandardBuilder.add_engram
standard_recipe(crafting_requirements) ==
    [i \in 1..Len(crafting_requirements) |->
        [friendly_resource_name |->
             PrimalItem(crafting_requirements[i].resource_item_type).primal_item_name,
         resource |-> strip_class_suffix(
                          ItemDefaults[crafting_requirements[i].resource_item_type].path_name),
         quantity |-> int_of_tenths(crafting_requirements[i].base_resource_requirement),
         exact |-> crafting_requirements[i].crafting_require_exact_resource_type]]

\* the record StandardBuilder.add_engram builds
standard_engram(engram, primal_item) ==
    [name |-> primal_item.primal_item_name,
     path |-> primal_item.primal_item_path,
     stackSize |-> primal_item.stack_size,
     entryString |-> engram.engram_class_name,
     requiredLevel |-> engram.required_level,
     requiredPoints |-> engram.required_engram_points,
     recipe |-> standard_recipe(primal_item.crafting_requirements)]

\* an add_engram that puts the new record first
StandardBuilder_add_engram_prepend(self_engrams, engram, primal_item) ==
    <<standard_engram(engram, primal_item)>> \o self_engrams

\* StandardBuilder.add_engram (CSVBuilder inherits it): self.engrams after the call
StandardBuilder_add_engram(self_engrams, engram, primal_item) ==
    Append(self_engrams, standard_engram(engram, primal_item))

\* EngramBuilder.add_engram: the call handed to the chosen builder
EngramBuilder_add_engram(self_engrams, engram, primal_item) ==
    IF parser = "beacon"
    THEN BeaconBuilder_add_engram(self_engrams, engram, primal_item)
    ELSE StandardBuilder_add_engram(self_engrams, engram, primal_item)

----------------------------------------------------------------------------
(* Files *)

\* a directory is a function from file names to files; a file is complete
\* when everything meant for it was written and it was closed
NoFiles == << >>

put_file(dir, file_name, file) ==
    [n \in (DOMAIN dir) \cup {file_name} |-> IF n = file_name THEN file ELSE dir[n]]

\* what a write to a file can come to
WriteOutcomes == {"ok", "open_failed", "write_failed"}

\* Utils.dump_to_file: open(..., "w") creates or empties the file, write fills it
dump_to_file(dir, file_name, contents, outcome) ==
    CASE outcome = "open_failed" -> dir
      [] outcome = "write_failed" -> put_file(dir, file_name, [complete |-> FALSE, text |-> None])
      [] OTHER -> put_file(dir, file_name, [complete |-> TRUE, text |-> contents])

\* json.dumps(value, indent=4): the text of a JSON document
json_dumps(value) == [type |-> "json", value |-> value]

\* BeaconBuilder.build: the content pack document
content_pack_document ==
    [payloads |->
        << [gameId |-> "ArkSA",
            contentPacks |->
               << [contentPackId |-> mod_data.content_pack_id,
                   gameId |-> "ArkSA",
                   marketplace |-> "CurseForge",
                   marketplaceId |-> mod_data.mod_id,
                   name |-> mod_data.mod_name,
                   isConsoleSafe |-> FALSE,
                   isDefaultEnabled |-> FALSE,
                   minVersion |-> 20000000,
                   lastUpdate |-> now] >>],
           [gameId |-> "ArkSA", engrams |-> engrams] >>]

\* f"{content_pack_id}.json"
content_pack_file_name == mod_data.content_pack_id \o JsonExt

\* BeaconBuilder.build_manifest: the manifest document
manifest_document ==
    [version |-> 7, minVersion |-> 7, generatedWith |-> 20100301, isFull |-> FALSE,
     files |-> << content_pack_file_name >>, isUserData |-> TRUE]

\* the output file names of the three builders
beacondata_file_name == mod_data.mod_name \o BeacondataExt
standard_file_name == mod_data.mod_name \o DataJsonSuffix
csv_file_name == mod_data.mod_name \o CsvExt

\* the header CSVBuilder.dump writes
csv_fields == <<"Item Name", "Item Path", "Max Stack Size", "Engram Class Name",
                "Required Level", "Required Engram Points", "Crafting Recipe">>

\* str() of a bool
str_bool(b) == IF b THEN "True" ELSE "False"

\* f"{resource} x{quantity} (Exact: {exact})", as the pieces of the text
recipe_line(ingredient) ==
    << ingredient.friendly_resource_name, " x", ToString(ingredient.quantity),
       " (Exact: ", str_bool(ingredient.exact), ")" >>

\* a join that separates the lines by a blank instead of a line break
RECURSIVE join_lines_blank(_)
join_lines_blank(lines) ==
    IF Len(lines) = 0 THEN << >>
    ELSE IF Len(lines) = 1 THEN lines[1]
    ELSE lines[1] \o <<" ">> \o join_lines_blank(Tail(lines))

\* "\n".join(lines), as the pieces of the text
RECURSIVE join_lines(_)
join_lines(lines) ==
    IF Len(lines) = 0 THEN << >>
    ELSE IF Len(lines) = 1 THEN lines[1]
    ELSE lines[1] \o <<"\n">> \o join_lines(Tail(lines))

\* the row CSVBuilder.dump writes for one engram; csv.writer writes str() of
\* a cell that is not a string
csv_row(engram) ==
    << engram.name, engram.path, ToString(engram.stackSize), engram.entryString,
       ToString(engram.requiredLevel), ToString(engram.requiredPoints),
       join_lines([i \in 1..Len(engram.recipe) |-> recipe_line(engram.recipe[i])]) >>

----------------------------------------------------------------------------
(* The state after ModParser() *)

ArgsInit ==
    \E subcommand \in Subcommands, mod_root_folder \in ModRoots,
       content_pack_id \in ContentPackIds :
        parse_arguments(subcommand, mod_root_folder, content_pack_id)

RunInit ==
    /\ pc = "find_mda"
    /\ mda_asset_path = ""
    /\ engram_entries = << >>
    /\ idx = 1
    /\ engrams = << >>
    /\ output_file_path = << >>
    /\ error = ""
    /\ tmp_exists = FALSE
    /\ tmp_dir = NoFiles
    /\ out_dir = NoFiles
    /\ tar = << >>
    /\ now = 0
    /\ q_path = << >>
    /\ q_result = [type |-> "unset"]

Init ==
    /\ ArgsInit
    /\ assets \in AssetTrees
    /\ mda_asset \in MdaAssets
    /\ RunInit

----------------------------------------------------------------------------
(* ModParser.run, step by step *)

\* run ends with an exception
Raise(exception) ==
    /\ pc' = "failed"
    /\ error' = exception

\* the for loop of ModParser.find_mda from the i-th asset on: the index of
\* the first asset whose name holds the mda name, 0 when there is none
RECURSIVE find_mda(_, _)
find_mda(asset_list, i) ==
    IF i > Len(asset_list) THEN 0
    ELSE IF contains(lower(asset_list[i].base_filename), lower(mda_name)) THEN i
    ELSE find_mda(asset_list, i + 1)

\* run: mda_asset_path = self.find_mda()
FindMda ==
    /\ pc = "find_mda"
    /\ LET i == find_mda(assets, 1) IN
         IF i = 0
         THEN /\ Raise("MissingDataException")
              /\ UNCHANGED mda_asset_path
         ELSE /\ mda_asset_path' = assets[i].path
              /\ pc' = "get_classes"
              /\ UNCHANGED error
    /\ UNCHANGED <<config_vars, query_vars, engram_entries, idx, engrams,
                   output_file_path, tmp_exists, tmp_dir, out_dir, tar, now>>

\* ModParser.get_additional_engram_blueprint_classes: the exception the call
\* raises, or else whether it returns None (is_none) or the list (value)
get_additional_engram_blueprint_classes(asset) ==
    IF asset.loads
    THEN IF ~asset.has_classes
         THEN [raises |-> "AttributeError", is_none |-> TRUE, value |-> << >>]
         ELSE IF Len(asset.classes) > 0
              THEN [raises |-> "", is_none |-> FALSE, value |-> asset.classes]
              ELSE [raises |-> "", is_none |-> TRUE, value |-> << >>]
    ELSE [raises |-> "MissingDataException", is_none |-> TRUE, value |-> << >>]

\* run: the builder is made, the entries are fetched and their number printed;
\* len(None) raises TypeError
GetClasses ==
    /\ pc = "get_classes"
    /\ LET r == get_additional_engram_blueprint_classes(mda_asset) IN
         IF r.raises # ""
         THEN /\ Raise(r.raises)
              /\ UNCHANGED engram_entries
         ELSE IF r.is_none
         THEN /\ Raise("TypeError")
              /\ UNCHANGED engram_entries
         ELSE /\ engram_entries' = r.value
              /\ pc' = "loop"
              /\ UNCHANGED error
    /\ engrams' = << >>
    /\ UNCHANGED <<config_vars, query_vars, mda_asset_path, idx,
                   output_file_path, tmp_exists, tmp_dir, out_dir, tar, now>>

\* the exceptions an unresolved object ends the loop body with: load_object
\* yields None, and either get_default_object(None) or the attribute access
\* on None raises
UnresolvedErrors == {"TypeError", "AttributeError"}

\* run: one pass of the for loop over engram_entries
LoopBody ==
    /\ pc = "loop"
    /\ idx <= Len(engram_entries)
    /\ LET engram == engram_entries[idx]
           item == EngramDefaults[engram].blue_print_entry
       IN IF ~ItemDefaults[item].resolves
          THEN /\ \E e \in UnresolvedErrors : Raise(e)
               /\ UNCHANGED <<engrams, idx, now>>
          ELSE /\ engrams' = EngramBuilder_add_engram(engrams, EngramEntry(engram),
                                                       PrimalItem(item))
               /\ idx' = idx + 1
               /\ now' = IF parser = "beacon" THEN now + 1 ELSE now
               /\ UNCHANGED <<pc, error>>
    /\ UNCHANGED <<config_vars, query_vars, mda_asset_path, engram_entries,
                   output_file_path, tmp_exists, tmp_dir, out_dir, tar>>

\* the for loop is over and builder.dump() is called
AtDump(subcommand) ==
    /\ pc = "loop"
    /\ idx > Len(engram_entries)
    /\ parser = subcommand

----------------------------------------------------------------------------
(* BeaconBuilder.dump *)

\* dump: temp_dir = Utils.make_tmp_dir()
MakeTmpDir ==
    /\ AtDump("beacon")
    /\ tmp_exists' = TRUE
    /\ tmp_dir' = NoFiles
    /\ pc' = "build"
    /\ UNCHANGED <<config_vars, query_vars, mda_asset_path, engram_entries, idx,
                   engrams, output_file_path, error, out_dir, tar, now>>

\* dump: self.build(temp_dir)
Build ==
    /\ pc = "build"
    /\ \E outcome \in WriteOutcomes :
         /\ tmp_dir' = dump_to_file(tmp_dir, content_pack_file_name,
                                    json_dumps(content_pack_document), outcome)
         /\ IF outcome = "ok"
            THEN pc' = "build_manifest" /\ UNCHANGED error
            ELSE Raise("OSError")
    /\ now' = now + 1
    /\ UNCHANGED <<config_vars, query_vars, mda_asset_path, engram_entries, idx,
                   engrams, output_file_path, tmp_exists, out_dir, tar>>

\* dump: self.build_manifest(temp_dir)
BuildManifest ==
    /\ pc = "build_manifest"
    /\ \E outcome \in WriteOutcomes :
         /\ tmp_dir' = dump_to_file(tmp_dir, ManifestFileName,
                                    json_dumps(manifest_document), outcome)
         /\ IF outcome = "ok"
            THEN pc' = "create_beacondata" /\ UNCHANGED error
            ELSE Raise("OSError")
    /\ UNCHANGED <<config_vars, query_vars, mda_asset_path, engram_entries, idx,
                   engrams, output_file_path, tmp_exists, out_dir, tar, now>>

\* the archive file with the members written to it so far
tar_file(members, closed) ==
    [complete |-> closed, text |-> [type |-> "tar.gz", members |-> members]]

\* dump sets output_file_path; create_beacondata: tarfile.open(output_path, "w:gz")
\* creates the file at the output path
TarOpen ==
    /\ pc = "create_beacondata"
    /\ output_file_path' = beacondata_file_name
    /\ tar' = << >>
    /\ \E opened \in BOOLEAN :
         IF opened
         THEN /\ out_dir' = put_file(out_dir, beacondata_file_name, tar_file(<< >>, FALSE))
              /\ pc' = "tar_add"
              /\ UNCHANGED error
         ELSE /\ Raise("OSError")
              /\ UNCHANGED out_dir
    /\ UNCHANGED <<config_vars, query_vars, mda_asset_path, engram_entries, idx,
                   engrams, tmp_exists, tmp_dir, now>>

\* the files of the temporary directory tar.add has not visited yet
files_left == { n \in DOMAIN tmp_dir : \A i \in 1..Len(tar) : tar[i].arcname # n }

\* create_beacondata: tar.add of the next file of os.walk, in the order the
\* directory lists its files; a failure leaves the with block by an exception,
\* which closes the file as it is
TarAdd ==
    /\ pc = "tar_add"
    /\ \E file \in files_left, added \in BOOLEAN :
         IF added
         THEN /\ tar' = Append(tar, [arcname |-> file, file |-> tmp_dir[file]])
              /\ out_dir' = put_file(out_dir, beacondata_file_name, tar_file(tar', FALSE))
              /\ UNCHANGED <<pc, error>>
         ELSE /\ Raise("OSError")
              /\ UNCHANGED <<tar, out_dir>>
    /\ UNCHANGED <<config_vars, query_vars, mda_asset_path, engram_entries, idx,
                   engrams, output_file_path, tmp_exists, tmp_dir, now>>

\* create_beacondata: the with block ends and the archive is closed
TarClose ==
    /\ pc = "tar_add"
    /\ files_left = {}
    /\ out_dir' = put_file(out_dir, beacondata_file_name, tar_file(tar, TRUE))
    /\ pc' = "remove_tmp_dir"
    /\ UNCHANGED <<config_vars, query_vars, mda_asset_path, engram_entries, idx,
                   engrams, output_file_path, error, tmp_exists, tmp_dir, tar, now>>

\* Utils.remove_tmp_dir
remove_tmp_dir ==
    /\ tmp_exists' = FALSE
    /\ tmp_dir' = NoFiles

\* dump: Utils.remove_tmp_dir(temp_dir), and run prints Done
RemoveTmpDir ==
    /\ pc = "remove_tmp_dir"
    /\ remove_tmp_dir
    /\ pc' = "done"
    /\ UNCHANGED <<config_vars, query_vars, mda_asset_path, engram_entries, idx,
                   engrams, output_file_path, error, out_dir, tar, now>>

----------------------------------------------------------------------------
(* StandardBuilder.dump and CSVBuilder.dump *)

\* StandardBuilder.build
StandardBuilder_build == json_dumps([engrams |-> engrams])

\* StandardBuilder.dump, and run prints Done
StandardDump ==
    /\ AtDump("standard")
    /\ \E outcome \in WriteOutcomes :
         /\ out_dir' = dump_to_file(out_dir, standard_file_name,
                                    StandardBuilder_build, outcome)
         /\ IF outcome = "ok"
            THEN /\ output_file_path' = standard_file_name
                 /\ pc' = "done"
                 /\ UNCHANGED error
            ELSE /\ Raise("OSError")
                 /\ UNCHANGED output_file_path
    /\ UNCHANGED <<config_vars, query_vars, mda_asset_path, engram_entries, idx,
                   engrams, tmp_exists, tmp_dir, tar, now>>

\* the csv file with the rows written to it so far
csv_file(rows, closed) ==
    [complete |-> closed, text |-> [type |-> "csv", rows |-> rows]]

\* the rows of the csv file at the output path
csv_rows == out_dir[csv_file_name].text.rows

\* CSVBuilder.dump: the output path is set and the file opened
CsvOpen ==
    /\ AtDump("csv")
    /\ output_file_path' = csv_file_name
    /\ \E opened \in BOOLEAN :
         IF opened
         THEN /\ out_dir' = put_file(out_dir, csv_file_name, csv_file(<< >>, FALSE))
              /\ pc' = "csv_header"
              /\ UNCHANGED error
         ELSE /\ Raise("OSError")
              /\ UNCHANGED out_dir
    /\ UNCHANGED <<config_vars, query_vars, mda_asset_path, engram_entries, idx,
                   engrams, tmp_exists, tmp_dir, tar, now>>

\* CSVBuilder.dump: writer.writerow(fields)
CsvWriteHeader ==
    /\ pc = "csv_header"
    /\ \E written \in BOOLEAN :
         IF written
         THEN /\ out_dir' = put_file(out_dir, csv_file_name, csv_file(<<csv_fields>>, FALSE))
              /\ pc' = "csv_rows"
              /\ UNCHANGED error
         ELSE /\ Raise("OSError")
              /\ UNCHANGED out_dir
    /\ UNCHANGED <<config_vars, query_vars, mda_asset_path, engram_entries, idx,
                   engrams, output_file_path, tmp_exists, tmp_dir, tar, now>>

\* CSVBuilder.dump: one pass of the loop over self.engrams; the header is
\* row 1, so the next engram is the one numbered Len(csv_rows)
CsvWriteRow ==
    /\ pc = "csv_rows"
    /\ Len(csv_rows) <= Len(engrams)
    /\ \E written \in BOOLEAN :
         IF written
         THEN /\ out_dir' = put_file(out_dir, csv_file_name,
                                     csv_file(Append(csv_rows, csv_row(engrams[Len(csv_rows)])),
                                              FALSE))
              /\ UNCHANGED <<pc, error>>
         ELSE /\ Raise("OSError")
              /\ UNCHANGED out_dir
    /\ UNCHANGED <<config_vars, query_vars, mda_asset_path, engram_entries, idx,
                   engrams, output_file_path, tmp_exists, tmp_dir, tar, now>>

\* CSVBuilder.dump: the with block ends and the file is closed; run prints Done
CsvClose ==
    /\ pc = "csv_rows"
    /\ Len(csv_rows) > Len(engrams)
    /\ out_dir' = put_file(out_dir, csv_file_name, csv_file(csv_rows, TRUE))
    /\ pc' = "done"
    /\ UNCHANGED <<config_vars, query_vars, mda_asset_path, engram_entries, idx,
                   engrams, output_file_path, error, tmp_exists, tmp_dir, tar, now>>

----------------------------------------------------------------------------
(* The specification of a run *)

Next ==
    \/ FindMda
    \/ GetClasses
    \/ LoopBody
    \/ MakeTmpDir
    \/ Build
    \/ BuildManifest
    \/ TarOpen
    \/ TarAdd
    \/ TarClose
    \/ RemoveTmpDir
    \/ StandardDump
    \/ CsvOpen
    \/ CsvWriteHeader
    \/ CsvWriteRow
    \/ CsvClose

Spec == Init /\ [][Next]_vars

----------------------------------------------------------------------------
(* The specification of direct uuid_from_path calls on a constructed ModParser *)

\* the letters of path tails
TailChars == {"B", "b"}

PathTails == UNION { [1..n -> TailChars] : n \in 0..MaxTailLen }

\* the heads of the paths tried: each prefix the dict may hold, a folder no
\* prefix owns and a prefix cut short, as written and in lower case
PathHeads ==
    LET heads == ModRoots \cup {GamePrefix, PacksPrefix,
                                <<"/", "O", "t", "h", "e", "r", "/">>,
                                <<"/", "G", "a", "m", "e">>}
    IN heads \cup { lower(h) : h \in heads }

DerivePaths == { h \o t : h \in PathHeads, t \in PathTails }

DeriveInit ==
    /\ ArgsInit
    /\ assets = << >>
    /\ mda_asset = [loads |-> FALSE, has_classes |-> FALSE, classes |-> << >>]
    /\ RunInit

\* parser.uuid_from_path(path)
Derive(path) ==
    /\ q_path' = path
    /\ q_result' = uuid_from_path(content_pack_ids, path)
    /\ UNCHANGED <<config_vars, pc, mda_asset_path, engram_entries, idx, engrams,
                   output_file_path, error, tmp_exists, tmp_dir, out_dir, tar, now>>

DeriveNext == \E path \in DerivePaths : Derive(path)

DeriveSpec == DeriveInit /\ [][DeriveNext]_vars

----------------------------------------------------------------------------
(* Properties *)

\* run has ended, by returning or by an exception
Ended == pc \in {"done", "failed"}

\* the item behind the k-th supplied entry
entry_item(k) == ItemDefaults[EngramDefaults[engram_entries[k]].blue_print_entry]

\* the lines of a text given in pieces, as str.splitlines() cuts it
RECURSIVE splitlines(_, _)
splitlines(text, line) ==
    IF Len(text) = 0
    THEN IF Len(line) = 0 THEN << >> ELSE << line >>
    ELSE IF Head(text) = "\n"
         THEN << line >> \o splitlines(Tail(text), << >>)
         ELSE splitlines(Tail(text), Append(line, Head(text)))

\* C1: in package mode the temporary directory of dump no longer exists when
\* run has ended, whether dump returned or raised.
C1_TmpDirReleased ==
    (parser = "beacon" /\ Ended) => ~tmp_exists

\* C2: in package mode, once run has ended, the destination path holds either
\* no file or an archive that was written in full and closed; after a failed
\* archive creation it holds no file.
C2_NoHalfWrittenArchive ==
    (parser = "beacon" /\ Ended /\ beacondata_file_name \in DOMAIN out_dir)
        => /\ out_dir[beacondata_file_name].complete
           /\ pc = "done"

\* C3: a run is all or nothing: when it has ended, either every supplied entry
\* was accumulated and every output file is complete, or there is no output file.
C3_AllOrNothing ==
    Ended =>
        \/ DOMAIN out_dir = {}
        \/ /\ pc = "done"
           /\ Len(engrams) = Len(mda_asset.classes)
           /\ \A n \in DOMAIN out_dir : out_dir[n].complete

\* C4: uuid_from_path returns the identifier derived from the first prefix, in
\* insertion order, that the path starts with, the fixed /Game/ and /Packs/
\* entries coming first, and None for a path that starts with no prefix.
C4_FirstPrefixWins ==
    /\ content_pack_ids[1].prefix = GamePrefix
    /\ content_pack_ids[2].prefix = PacksPrefix
    /\ q_result.type # "unset" =>
         LET matching == { i \in 1..Len(content_pack_ids) :
                              /\ Len(content_pack_ids[i].prefix) <= Len(q_path)
                              /\ SubSeq(q_path, 1, Len(content_pack_ids[i].prefix))
                                     = content_pack_ids[i].prefix }
         IN IF matching = {}
            THEN q_result = None
            ELSE LET first == CHOOSE i \in matching : \A j \in matching : i <= j
                 IN q_result = [type |-> "UUID", namespace |-> BEACON_NAMESPACE,
                                name |-> lower(content_pack_ids[first].id) \o <<":">>
                                         \o lower(q_path)]

\* C4, witness: a path that starts with two prefixes owned by different content
\* packs, the longer one inserted later, is given the identifier of the earlier.
C4_Witness ==
    /\ q_result.type = "UUID"
    /\ \E i, j \in 1..Len(content_pack_ids) :
         /\ i < j
         /\ startswith(q_path, content_pack_ids[i].prefix)
         /\ startswith(q_path, content_pack_ids[j].prefix)
         /\ Len(content_pack_ids[j].prefix) > Len(content_pack_ids[i].prefix)
         /\ content_pack_ids[i].id # content_pack_ids[j].id
         /\ q_result.name = lower(content_pack_ids[i].id) \o <<":">> \o lower(q_path)

\* C5: two paths that differ only in letter case are given the same result by
\* uuid_from_path.
C5_CaseInsensitive ==
    q_result.type # "unset" =>
        \A other \in DerivePaths :
            lower(other) = lower(q_path)
                => uuid_from_path(content_pack_ids, other) = q_result

\* C6: the builder holds one record per add_engram call in call order, the
\* calls follow the order of the supplied entries, each recipe follows the
\* order of the item's requirements, and what dump has written holds the
\* records in that same order.
C6_OrderPreserved ==
    /\ Len(engrams) = idx - 1
    /\ \A k \in 1..Len(engrams) :
         /\ engrams[k].entryString = EngramDefaults[engram_entries[k]].class_name
         /\ engrams[k].path = strip_class_suffix(entry_item(k).path_name)
         /\ Len(engrams[k].recipe)
                = Len(entry_item(k).base_crafting_resource_requirements)
         /\ \A j \in 1..Len(engrams[k].recipe) :
              LET r == entry_item(k).base_crafting_resource_requirements[j] IN
                /\ engrams[k].recipe[j].quantity
                       = int_of_tenths(r.base_resource_requirement)
                /\ engrams[k].recipe[j].exact = r.crafting_require_exact_resource_type
    /\ (parser = "standard" /\ pc = "done")
         => out_dir[standard_file_name].text.value.engrams = engrams
    /\ (parser = "csv" /\ csv_file_name \in DOMAIN out_dir)
         => \A k \in 2..Len(csv_rows) :
              /\ k - 1 <= Len(engrams)
              /\ csv_rows[k][4] = engrams[k - 1].entryString
              /\ csv_rows[k][2] = engrams[k - 1].path
    /\ (parser = "beacon" /\ pc = "done")
         => \A i \in 1..Len(out_dir[beacondata_file_name].text.members) :
              LET doc == out_dir[beacondata_file_name].text.members[i].file.text.value
              IN "payloads" \in DOMAIN doc => doc.payloads[2].engrams = engrams

\* C6, witness: a finished run over two different entries, the first of them
\* with a recipe of two requirements.
C6_Witness ==
    /\ pc = "done"
    /\ parser = "csv"
    /\ Len(engrams) = 2
    /\ engram_entries[1] # engram_entries[2]
    /\ Len(engrams[1].recipe) = 2
    /\ Len(csv_rows) = 3

\* C7: the csv file of a finished run holds the header row and then one row
\* per accumulated record, and the recipe cell of each row holds one line
\* "{resource_name} x{quantity} (Exact: {bool})" per requirement of the
\* record's item, in recipe order.
C7_CsvRows ==
    (parser = "csv" /\ pc = "done") =>
        /\ out_dir[csv_file_name].complete
        /\ Len(csv_rows) = Len(engrams) + 1
        /\ csv_rows[1] = csv_fields
        /\ \A k \in 1..Len(engrams) :
             LET lines == splitlines(csv_rows[k + 1][7], << >>)
                 reqs == entry_item(k).base_crafting_resource_requirements
             IN /\ Len(lines) = Len(reqs)
                /\ \A j \in 1..Len(reqs) :
                     lines[j] = << ItemDefaults[reqs[j].resource_item_type].descriptive_name_base,
                                   " x",
                                   ToString(int_of_tenths(reqs[j].base_resource_requirement)),
                                   " (Exact: ",
                                   IF reqs[j].crafting_require_exact_resource_type
                                   THEN "True" ELSE "False",
                                   ")" >>

\* C7, witness: a finished csv run with a record of two requirements and a
\* record of none.
C7_Witness ==
    /\ parser = "csv"
    /\ pc = "done"
    /\ Len(csv_rows) = 3
    /\ \E k \in 1..Len(engrams) : Len(engrams[k].recipe) = 2
    /\ \E k \in 1..Len(engrams) : Len(engrams[k].recipe) = 0

\* C8: after a successful package-mode dump the archive holds exactly two
\* members, {contentPackId}.json and Manifest.json, and the manifest's files
\* list names the content pack document that was written.
C8_ArchiveMembers ==
    (parser = "beacon" /\ pc = "done") =>
        LET members == out_dir[beacondata_file_name].text.members IN
            /\ out_dir[beacondata_file_name].complete
            /\ Len(members) = 2
            /\ { members[i].arcname : i \in 1..Len(members) }
                   = { content_pack_file_name, ManifestFileName }
            /\ \A i \in 1..Len(members) :
                 /\ members[i].arcname = ManifestFileName
                        => /\ "files" \in DOMAIN members[i].file.text.value
                           /\ members[i].file.text.value.files = << content_pack_file_name >>
                 /\ members[i].arcname = content_pack_file_name
                        => "payloads" \in DOMAIN members[i].file.text.value

\* C9: in package mode a record of a blueprintable item carries exactly one
\* tag, a record of any other item carries none, and each requirement of its
\* recipe carries the identifier, the quantity and the exact flag and nothing else.
C9_TagsAndRecipe ==
    parser = "beacon" =>
        \A k \in 1..Len(engrams) :
            /\ entry_item(k).can_be_blueprint => Len(engrams[k].tags) = 1
            /\ ~entry_item(k).can_be_blueprint => Len(engrams[k].tags) = 0
            /\ Len(engrams[k].recipe)
                   = Len(entry_item(k).base_crafting_resource_requirements)
            /\ \A j \in 1..Len(engrams[k].recipe) :
                 DOMAIN engrams[k].recipe[j] = {"engramId", "quantity", "exact"}

\* C9, witness: package mode has accumulated a blueprintable item with a
\* recipe and an item that is not blueprintable.
C9_Witness ==
    /\ parser = "beacon"
    /\ Len(engrams) = 2
    /\ \E k \in 1..2 : entry_item(k).can_be_blueprint /\ Len(engrams[k].recipe) = 2
    /\ \E k \in 1..2 : ~entry_item(k).can_be_blueprint /\ engrams[k].tags = << >>

\* C10: when the mod data asset is found and loads but its list of engram
\* classes is absent or empty, the run fails with MissingDataException, writes
\* no output and never enters the loop.
C10_MissingField ==
    (/\ pc \notin {"find_mda", "get_classes"}
     /\ mda_asset_path # ""
     /\ mda_asset.loads
     /\ (~mda_asset.has_classes \/ Len(mda_asset.classes) = 0))
        => /\ pc = "failed"
           /\ error = "MissingDataException"
           /\ DOMAIN out_dir = {}
           /\ idx = 1

====
